---- MODULE Spec2Model ----
(***************************************************************************)
(* Model of languagebench/bench_python.py: a script that times five loops  *)
(* (integer add, double arith, string concat, array push, struct access)   *)
(* between two reads of time.time() and prints one report row for each.    *)
(*                                                                         *)
(* Text is modelled as sequences of one-character strings, so that a line  *)
(* of the report can be taken apart column by column.  A Python float is   *)
(* modelled as an exact rational [k |-> "fin", num, den] (den > 0) or one   *)
(* of the three special values "inf", "-inf", "nan".  time.time() is an    *)
(* input: every read returns any whole number of seconds in 0..MaxTick,    *)
(* and later reads may be smaller than earlier ones (the wall clock can be *)
(* set back).                                                              *)
(***************************************************************************)
EXTENDS Integers, Sequences, FiniteSets, TLC

(***************************************************************************)
(* Bounds of the model.                                                    *)
(***************************************************************************)
\* time.time() returns a value in 0..MaxTick
MaxTick == 2
\* iterations at the start of each loop that are modelled one at a time
HeadIters == 2
\* iterations at the end of each loop that are modelled one at a time
TailIters == 2
\* calls made by the harness that applies print_header and print_result
MaxCalls == 2

(***************************************************************************)
(* Text                                                                    *)
(***************************************************************************)
Digits == <<"0", "1", "2", "3", "4", "5", "6", "7", "8", "9">>

Rep(c, n) == [k \in 1..n |-> c]

Max(a, b) == IF a >= b THEN a ELSE b

Abs(a) == IF a < 0 THEN -a ELSE a

Pow10(n) == IF n = 0 THEN 1 ELSE IF n = 1 THEN 10 ELSE IF n = 2 THEN 100
            ELSE IF n = 3 THEN 1000 ELSE 10000

RECURSIVE NatStr(_)
\* the decimal digits of a natural number, as "d" formats it
NatStr(n) == IF n < 10 THEN <<Digits[n + 1]>>
             ELSE NatStr(n \div 10) \o <<Digits[(n % 10) + 1]>>

\* n written with at least w digits, zero-filled on the left
ZeroPad(n, w) == Rep("0", Max(0, w - Len(NatStr(n)))) \o NatStr(n)

RECURSIVE Grouped(_)
\* the "," option of the format mini-language: groups of three digits
Grouped(n) == IF n < 1000 THEN NatStr(n)
              ELSE Grouped(n \div 1000) \o <<",">> \o ZeroPad(n % 1000, 3)

\* the "<w" alignment: text first, then spaces up to width w (never cut)
PadRight(s, w) == s \o Rep(" ", Max(0, w - Len(s)))

\* the ">w" alignment: spaces up to width w, then the text (never cut)
PadLeft(s, w) == Rep(" ", Max(0, w - Len(s))) \o s

(***************************************************************************)
(* Floats                                                                  *)
(***************************************************************************)
Fin(n, d) == [k |-> "fin", num |-> n, den |-> d]

Inf == [k |-> "inf", num |-> 0, den |-> 1]

NegInf == [k |-> "-inf", num |-> 0, den |-> 1]

NaN == [k |-> "nan", num |-> 0, den |-> 1]

\* a slip: the operands of the subtraction exchanged
FloatSub_Exchanged(a, b) == Fin(b.num * a.den - a.num * b.den, a.den * b.den)

\* end - start of two clock readings (whole seconds)
FloatSub(a, b) == Fin(a.num * b.den - b.num * a.den, a.den * b.den)

\* limit / sec for an int limit and a float sec; Python raises
\* ZeroDivisionError when sec is 0.0
FloatDivRaises(sec) == sec.k = "fin" /\ sec.num = 0

\* the quotient when it does not raise (sec is a finite, nonzero difference
\* of clock readings); the denominator is kept positive
FloatDiv(limit, sec) ==
    IF sec.num < 0 THEN Fin(-(limit * sec.den), -sec.num)
    ELSE Fin(limit * sec.den, sec.num)

\* a / b rounded to the nearest integer, ties to even (a >= 0, b > 0): the
\* rounding of "f" formatting for a float that holds a / b exactly, and for
\* any float whose digits past the precision are not exactly one half
RoundHalfEven(a, b) ==
    LET q == a \div b
        r == a % b
    IN  IF 2 * r < b THEN q
        ELSE IF 2 * r > b THEN q + 1
        ELSE IF q % 2 = 0 THEN q ELSE q + 1

\* format(f, ".<prec>f") and format(f, ",.<prec>f")
FormatFloat(f, prec, grouping) ==
    IF f.k # "fin" THEN
        IF f.k = "inf" THEN <<"i", "n", "f">>
        ELSE IF f.k = "-inf" THEN <<"-", "i", "n", "f">>
        ELSE <<"n", "a", "n">>
    ELSE
        LET a     == Abs(f.num)
            whole == a \div f.den
            frac  == RoundHalfEven((a % f.den) * Pow10(prec), f.den)
            carry == IF frac = Pow10(prec) THEN 1 ELSE 0
            ip    == whole + carry
            fp    == IF carry = 1 THEN 0 ELSE frac
        IN  (IF f.num < 0 THEN <<"-">> ELSE <<>>)
            \o (IF grouping THEN Grouped(ip) ELSE NatStr(ip))
            \o <<".">> \o ZeroPad(fp, prec)

(***************************************************************************)
(* The report                                                              *)
(***************************************************************************)
TitleText == <<">", ">", ">", " ", "P", "y", "t", "h", "o", "n", " ", "3", " ",
               "B", "e", "n", "c", "h", "m", "a", "r", "k", " ",
               "S", "u", "i", "t", "e", " ", "<", "<", "<">>

RuleText == <<" ", " ">> \o Rep("-", 61)

Benchmark == <<"B", "e", "n", "c", "h", "m", "a", "r", "k">>

Performance == <<"P", "e", "r", "f", "o", "r", "m", "a", "n", "c", "e">>

HeaderText == <<" ", " ">> \o PadRight(Benchmark, 15) \o <<" ", "|", " ">>
              \o PadLeft(Performance, 15) \o <<" ", "|", " ", "T", "i", "m", "e">>

\* a slip: the title written in place of the opening rule
print_header_TitleFirst == <<TitleText, HeaderText, RuleText>>

\* a slip: the closing rule of the header left out
print_header_NoClosingRule == <<RuleText, HeaderText>>

\* the lines print_header() writes
print_header == <<RuleText, HeaderText, RuleText>>

\* the text print_result formats from its arguments
RowText(name, ops, sec) ==
    LET ops_str == FormatFloat(ops, 2, TRUE)
    IN  <<" ", " ">> \o PadRight(name, 15) \o <<" ", "|", " ">>
        \o PadLeft(ops_str, 15)
        \o <<" ", "O", "P", "S", "/", "s", "e", "c", " ", "|", " ">>
        \o FormatFloat(sec, 4, FALSE) \o <<"s">>

\* a slip: rows with an elapsed time that is not positive are rejected
print_result_Validating(name, ops, sec) ==
    IF sec.k = "fin" /\ sec.num > 0 THEN <<RowText(name, ops, sec)>> ELSE <<>>

\* the lines print_result(name, ops, sec) writes
print_result(name, ops, sec) == <<RowText(name, ops, sec)>>

(***************************************************************************)
(* The benchmarks                                                          *)
(***************************************************************************)
\* a slip: two calls of the entry point exchanged
Order_Exchanged == <<"bench_int", "bench_string", "bench_double", "bench_array",
                     "bench_struct">>

\* the calls of the entry point, in the order it makes them
Order == <<"bench_int", "bench_double", "bench_string", "bench_array",
           "bench_struct">>

\* the iteration count each benchmark assigns to its local `limit`
limit(b) == CASE b = "bench_int"    -> 1000000000
              [] b = "bench_double" -> 100000000
              [] b = "bench_string" -> 50000
              [] b = "bench_array"  -> 1000000
              [] b = "bench_struct" -> 50000000

\* the name each benchmark passes to print_result
Label(b) ==
    CASE b = "bench_int"    -> <<"I", "n", "t", "e", "g", "e", "r", " ", "A", "d", "d">>
      [] b = "bench_double" -> <<"D", "o", "u", "b", "l", "e", " ", "A", "r", "i", "t", "h">>
      [] b = "bench_string" -> <<"S", "t", "r", "i", "n", "g", " ", "C", "o", "n", "c", "a", "t">>
      [] b = "bench_array"  -> <<"A", "r", "r", "a", "y", " ", "P", "u", "s", "h">>
      [] b = "bench_struct" -> <<"S", "t", "r", "u", "c", "t", " ", "A", "c", "c", "e", "s", "s">>

\* Obj(): a fresh object with val = 0
Obj == [val |-> 0]

\* The locals a benchmark has bound when its loop is first tested, given the
\* value t that its first read of time.time() returned.  The double
\* accumulator is kept as an exact rational (val = 11 k / 10 after k
\* additions of 1.1); the string s, which only ever holds "a"s, is kept as
\* its length; the list arr is kept as its length and its last element.
Prologue(b, t) ==
    [limit |-> limit(b), start |-> Fin(t, 1), i |-> 0]
    @@ CASE b = "bench_int"    -> <<>>
         [] b = "bench_double" -> [val |-> Fin(0, 10)]
         [] b = "bench_string" -> [s |-> [len |-> 0]]
         [] b = "bench_array"  -> [arr |-> [len |-> 0, last |-> -1]]
         [] b = "bench_struct" -> [o |-> Obj]

\* binds (or rebinds) the local name n to the value v
Bind(l, n, v) == [m \in DOMAIN l \cup {n} |-> IF m = n THEN v ELSE l[m]]

\* a slip: the field read before it is written
WriteThenRead_ReadFirst(l) ==
    LET w == Bind(l, "x", l.o.val)
    IN  [w EXCEPT !.o = [val |-> l.i]]

\* o.val = i; x = o.val
WriteThenRead(l) ==
    LET w == [l EXCEPT !.o = [val |-> l.i]]
    IN  Bind(w, "x", w.o.val)

\* the statement(s) of the loop body before the counter's increment
Operation(b, l) ==
    CASE b = "bench_int"    -> l
      [] b = "bench_double" -> [l EXCEPT !.val = Fin(@.num + 11, 10)]
      [] b = "bench_string" -> [l EXCEPT !.s = [len |-> @.len + 1]]
      [] b = "bench_array"  -> [l EXCEPT !.arr = [len |-> @.len + 1, last |-> l.i]]
      [] b = "bench_struct" -> WriteThenRead(l)

\* one run of the loop body: the operation, then i += 1
Body(b, l) == [Operation(b, l) EXCEPT !.i = @ + 1]

\* k >= 1 consecutive runs of the loop body, as one step
BodyTimes(b, l, k) ==
    LET j == l.i + k IN
    CASE b = "bench_int"    -> [l EXCEPT !.i = j]
      [] b = "bench_double" -> [l EXCEPT !.i = j, !.val = Fin(@.num + 11 * k, 10)]
      [] b = "bench_string" -> [l EXCEPT !.i = j, !.s = [len |-> @.len + k]]
      [] b = "bench_array"  ->
            [l EXCEPT !.i = j, !.arr = [len |-> @.len + k, last |-> j - 1]]
      [] b = "bench_struct" ->
            Bind([l EXCEPT !.i = j, !.o = [val |-> j - 1]], "x", j - 1)

\* a slip: the loop stops one iteration early
LoopTest_OneShort(l) == l.i < l.limit - 1

\* the loop test
LoopTest(l) == l.i < l.limit

\* the values time.time() can return
Clock == 0..MaxTick

\* no frame: the locals of a function that is not running
NoLocals == <<>>

(***************************************************************************)
(* State                                                                   *)
(***************************************************************************)
VARIABLES
    mainpc,  \* where the entry point is: "title", "header", "bench", "rule",
             \* "blank", "done"; "raised" after an uncaught exception;
             \* "harness" when the functions are called on their own
    cur,     \* the index in Order of the benchmark being called (0: none yet)
    pc,      \* where the running benchmark is: "start", "loop", "compute",
             \* "print", "ret"; "idle" when none is running
    locals,  \* the local variables of the running benchmark, by name
    out,     \* the lines written to standard output
    calls,   \* history: the arguments of every call of print_result
    trace,   \* history: clock reads, prints and returns, in order
    iters    \* history: how many times each benchmark ran its operation

vars == <<mainpc, cur, pc, locals, out, calls, trace, iters>>

Event(e, b) == [ev |-> e, b |-> b]

Init ==
    /\ mainpc = "title"
    /\ cur = 0
    /\ pc = "idle"
    /\ locals = NoLocals
    /\ out = <<>>
    /\ calls = <<>>
    /\ trace = <<>>
    /\ iters = [k \in 1..Len(Order) |-> 0]

\* line 81
PrintTitle ==
    /\ mainpc = "title"
    /\ out' = Append(out, TitleText)
    /\ mainpc' = "header"
    /\ UNCHANGED <<cur, pc, locals, calls, trace, iters>>

\* line 82, and the call of bench_int that follows it
CallPrintHeader ==
    /\ mainpc = "header"
    /\ out' = out \o print_header
    /\ trace' = Append(trace, Event("print_header", 0))
    /\ mainpc' = "bench"
    /\ cur' = 1
    /\ pc' = "start"
    /\ UNCHANGED <<locals, calls, iters>>

\* the benchmark up to its first loop test: limit, the first clock read,
\* the accumulator and i = 0
BenchStart ==
    /\ mainpc = "bench" /\ pc = "start"
    /\ \E t \in Clock : locals' = Prologue(Order[cur], t)
    /\ trace' = Append(trace, Event("start", cur))
    /\ pc' = "loop"
    /\ UNCHANGED <<mainpc, cur, out, calls, iters>>

\* one iteration, among the first HeadIters or the last TailIters
LoopIter ==
    /\ mainpc = "bench" /\ pc = "loop"
    /\ LoopTest(locals)
    /\ locals.i < HeadIters \/ locals.i >= locals.limit - TailIters
    /\ locals' = Body(Order[cur], locals)
    /\ iters' = [iters EXCEPT ![cur] = @ + 1]
    /\ UNCHANGED <<mainpc, cur, pc, out, calls, trace>>

\* the iterations between the first HeadIters and the last TailIters, taken
\* in one step
LoopBlock ==
    /\ mainpc = "bench" /\ pc = "loop"
    /\ LoopTest(locals)
    /\ locals.i >= HeadIters /\ locals.i < locals.limit - TailIters
    /\ locals' = BodyTimes(Order[cur], locals, locals.limit - TailIters - locals.i)
    /\ iters' = [iters EXCEPT ![cur] = @ + (locals.limit - TailIters - locals.i)]
    /\ UNCHANGED <<mainpc, cur, pc, out, calls, trace>>

\* the loop test fails: the second clock read and sec = end - start
LoopExit ==
    /\ mainpc = "bench" /\ pc = "loop"
    /\ ~LoopTest(locals)
    /\ \E t \in Clock :
          locals' = locals @@ [end |-> Fin(t, 1),
                               sec |-> FloatSub(Fin(t, 1), locals.start)]
    /\ trace' = Append(trace, Event("end", cur))
    /\ pc' = "compute"
    /\ UNCHANGED <<mainpc, cur, out, calls, iters>>

\* ops = limit / sec
Divide ==
    /\ mainpc = "bench" /\ pc = "compute"
    /\ ~FloatDivRaises(locals.sec)
    /\ locals' = locals @@ [ops |-> FloatDiv(locals.limit, locals.sec)]
    /\ pc' = "print"
    /\ UNCHANGED <<mainpc, cur, out, calls, trace, iters>>

\* ops = limit / sec raises ZeroDivisionError; nothing catches it, and the
\* interpreter exits (the locals stay as they were when the error was raised)
DivideRaises ==
    /\ mainpc = "bench" /\ pc = "compute"
    /\ FloatDivRaises(locals.sec)
    /\ mainpc' = "raised"
    /\ UNCHANGED <<cur, pc, locals, out, calls, trace, iters>>

\* print_result(label, ops, sec)
CallPrintResult ==
    /\ mainpc = "bench" /\ pc = "print"
    /\ out' = out \o print_result(Label(Order[cur]), locals.ops, locals.sec)
    /\ calls' = Append(calls, [name |-> Label(Order[cur]), ops |-> locals.ops,
                               sec |-> locals.sec])
    /\ trace' = Append(trace, Event("print", cur))
    /\ pc' = "ret"
    /\ UNCHANGED <<mainpc, cur, locals, iters>>

\* a slip: the benchmark returns without printing its row
Return_WithoutPrint ==
    /\ mainpc = "bench" /\ pc \in {"print", "ret"}
    /\ locals' = NoLocals
    /\ trace' = Append(trace, Event("return", cur))
    /\ IF cur < Len(Order)
         THEN cur' = cur + 1 /\ pc' = "start" /\ mainpc' = mainpc
         ELSE cur' = cur /\ pc' = "idle" /\ mainpc' = "rule"
    /\ UNCHANGED <<out, calls, iters>>

\* the benchmark returns; the entry point goes on to its next line
Return ==
    /\ mainpc = "bench" /\ pc = "ret"
    /\ locals' = NoLocals
    /\ trace' = Append(trace, Event("return", cur))
    /\ IF cur < Len(Order)
         THEN cur' = cur + 1 /\ pc' = "start" /\ mainpc' = mainpc
         ELSE cur' = cur /\ pc' = "idle" /\ mainpc' = "rule"
    /\ UNCHANGED <<out, calls, iters>>

\* line 88
PrintRule ==
    /\ mainpc = "rule"
    /\ out' = Append(out, RuleText)
    /\ mainpc' = "blank"
    /\ UNCHANGED <<cur, pc, locals, calls, trace, iters>>

\* line 89
PrintBlank ==
    /\ mainpc = "blank"
    /\ out' = Append(out, <<>>)
    /\ mainpc' = "done"
    /\ UNCHANGED <<cur, pc, locals, calls, trace, iters>>

Next ==
    \/ PrintTitle
    \/ CallPrintHeader
    \/ BenchStart
    \/ LoopIter
    \/ LoopBlock
    \/ LoopExit
    \/ Divide
    \/ DivideRaises
    \/ CallPrintResult
    \/ Return
    \/ PrintRule
    \/ PrintBlank

Spec == Init /\ [][Next]_vars

\* the interpreter runs the script's next statement whenever there is one
LiveSpec == Spec /\ WF_vars(Next)

(***************************************************************************)
(* print_header and print_result called on their own                       *)
(***************************************************************************)
\* names, throughputs and elapsed times handed to print_result: the five
\* labels, a name wider than its column and the empty name; finite values
\* of both signs, zero, and the three special floats
NameInputs == {Label(Order[k]) : k \in 1..Len(Order)}
                \cup {<<>>, Rep("x", 16)}

OpsInputs == {Fin(0, 1), Fin(1, 8), Fin(-1, 1000), Fin(1000000000, 3),
              Fin(-1000000000, 1), Fin(1234567, 1), Inf, NegInf, NaN}

SecInputs == {Fin(0, 1), Fin(1, 3), Fin(-2, 3), Fin(-1, 1), Fin(12, 1),
              Inf, NegInf, NaN}

InitCalls ==
    /\ mainpc = "harness"
    /\ cur = 0
    /\ pc = "idle"
    /\ locals \in [name : NameInputs, ops : OpsInputs, sec : SecInputs]
    /\ out = <<>>
    /\ calls = <<>>
    /\ trace = <<>>
    /\ iters = [k \in 1..Len(Order) |-> 0]

\* a call print_header()
HarnessHeader ==
    /\ mainpc = "harness"
    /\ Len(trace) < MaxCalls
    /\ out' = out \o print_header
    /\ trace' = Append(trace, Event("print_header", 0))
    /\ UNCHANGED <<mainpc, cur, pc, locals, calls, iters>>

\* a call print_result(name, ops, sec)
HarnessResult ==
    /\ mainpc = "harness"
    /\ Len(trace) < MaxCalls
    /\ out' = out \o print_result(locals.name, locals.ops, locals.sec)
    /\ calls' = Append(calls, locals)
    /\ trace' = Append(trace, Event("print", 0))
    /\ UNCHANGED <<mainpc, cur, pc, locals, iters>>

NextCalls == HarnessHeader \/ HarnessResult

CallSpec == InitCalls /\ [][NextCalls]_vars

(***************************************************************************)
(* Reading a report                                                        *)
(***************************************************************************)
Last(q) == q[Len(q)]

StartsWith(t, p) == Len(t) >= Len(p) /\ SubSeq(t, 1, Len(p)) = p

EndsWith(t, p) == Len(t) >= Len(p) /\ SubSeq(t, Len(t) - Len(p) + 1, Len(t)) = p

RECURSIVE Trim(_)
\* t without the spaces at its ends
Trim(t) == IF t = <<>> THEN t
           ELSE IF t[1] = " " THEN Trim(SubSeq(t, 2, Len(t)))
           ELSE IF t[Len(t)] = " " THEN Trim(SubSeq(t, 1, Len(t) - 1))
           ELSE t

\* the positions of the column separators of a line
Bars(t) == {k \in 1..Len(t) : t[k] = "|"}

\* the n-th of the three columns of a line with two separators
Column(t, n) ==
    LET p1 == CHOOSE k \in Bars(t) : \A j \in Bars(t) : k <= j
        p2 == CHOOSE k \in Bars(t) : \A j \in Bars(t) : k >= j
    IN  IF n = 1 THEN SubSeq(t, 1, p1 - 1)
        ELSE IF n = 2 THEN SubSeq(t, p1 + 1, p2 - 1)
        ELSE SubSeq(t, p2 + 1, Len(t))

IsTitle(t) == StartsWith(t, <<">", ">", ">", " ">>) /\ EndsWith(t, <<" ", "<", "<", "<">>)

IsRule(t) == /\ Len(t) > 2
             /\ t[1] = " " /\ t[2] = " "
             /\ \A k \in 3..Len(t) : t[k] = "-"

IsHeader(t) == /\ Cardinality(Bars(t)) = 2
               /\ Trim(Column(t, 1)) = <<"B", "e", "n", "c", "h", "m", "a", "r", "k">>
               /\ Trim(Column(t, 2)) =
                     <<"P", "e", "r", "f", "o", "r", "m", "a", "n", "c", "e">>
               /\ Trim(Column(t, 3)) = <<"T", "i", "m", "e">>

\* a data row: a name column, a throughput column that ends in OPS/sec and an
\* elapsed column that ends in s
IsRow(t) ==
    /\ Len(t) > 2 /\ t[3] # "-"
    /\ Cardinality(Bars(t)) = 2
    /\ LET c1 == Column(t, 1)
           c2 == Column(t, 2)
           c3 == Column(t, 3)
       IN  /\ StartsWith(c1, <<" ", " ">>)
           /\ EndsWith(c2, <<" ", "O", "P", "S", "/", "s", "e", "c", " ">>)
           /\ StartsWith(c3, <<" ">>)
           /\ EndsWith(c3, <<"s">>)
           /\ Len(c3) > 2

RowLabel(t) == Trim(Column(t, 1))

\* the data rows of a report, in the order they were written
Rows(o) == SelectSeq(o, IsRow)

RowLabels(o) == LET r == Rows(o) IN [k \in 1..Len(r) |-> RowLabel(r[k])]

\* the labels of the report, as section 8 of the specification lists them
FixedOrder ==
    << <<"I", "n", "t", "e", "g", "e", "r", " ", "A", "d", "d">>,
       <<"D", "o", "u", "b", "l", "e", " ", "A", "r", "i", "t", "h">>,
       <<"S", "t", "r", "i", "n", "g", " ", "C", "o", "n", "c", "a", "t">>,
       <<"A", "r", "r", "a", "y", " ", "P", "u", "s", "h">>,
       <<"S", "t", "r", "u", "c", "t", " ", "A", "c", "c", "e", "s", "s">> >>

IsPrefix(p, q) == Len(p) <= Len(q) /\ SubSeq(q, 1, Len(p)) = p

Finished == mainpc = "done"

Aborted == mainpc = "raised"

\* the elapsed time of the running benchmark has been computed and is 0
ZeroElapsed == "sec" \in DOMAIN locals /\ locals.sec.k = "fin" /\ locals.sec.num = 0

\* the float f is the quotient n / d of two integers (d # 0)
IsQuotient(f, n, d) ==
    LET nn == IF d < 0 THEN -n ELSE n
        dd == Abs(d)
    IN  /\ f.k = "fin" /\ f.den > 0
        /\ f.num \div f.den = nn \div dd
        /\ (f.num % f.den) * dd = (nn % dd) * f.den

\* the iteration counts of section 4.2 of the specification, by position
FixedCount == <<1000000000, 100000000, 50000, 1000000, 50000000>>

Has(e, b) == \E k \in 1..Len(trace) : trace[k] = Event(e, b)

Pos(e, b) == CHOOSE k \in 1..Len(trace) : trace[k] = Event(e, b)

(***************************************************************************)
(* C1  A benchmark whose two clock reads are equal (elapsed = 0) does not  *)
(* abort the run with an uncaught division fault: whenever the elapsed     *)
(* time of the running benchmark is 0, the run has not been aborted, so    *)
(* the later benchmarks and the trailing rule can still follow.            *)
(***************************************************************************)
C1_ZeroElapsedDoesNotAbort == ZeroElapsed => ~Aborted

(***************************************************************************)
(* C2  Whatever the clock returns, the labels of the data rows written so  *)
(* far are an initial part of Integer Add, Double Arith, String Concat,    *)
(* Array Push, Struct Access (no row twice, skipped or out of order), and  *)
(* the report of a finished run has exactly these five.                    *)
(***************************************************************************)
C2_FiveRowsInOrder ==
    /\ IsPrefix(RowLabels(out), FixedOrder)
    /\ Finished => RowLabels(out) = FixedOrder /\ Len(Rows(out)) = 5

\* a finished run in which the clock went backwards during one benchmark and
\* forwards during another
C2_Witness ==
    /\ Finished
    /\ Len(Rows(out)) = 5
    /\ \E j, k \in 1..Len(calls) : calls[j].sec.num < 0 /\ calls[k].sec.num > 0

(***************************************************************************)
(* C3 as stated  The lines a call of print_header() emits are, in order, a *)
(* title line, the column-header line and one separator rule: after a      *)
(* single call from an empty output the output is those three lines.       *)
(***************************************************************************)
C3_HeaderStartsWithTitle ==
    trace = <<Event("print_header", 0)>> =>
        /\ Len(out) = 3
        /\ IsTitle(out[1])
        /\ IsHeader(out[2])
        /\ IsRule(out[3])

(***************************************************************************)
(* C3 as amended  Every call of print_header() appends exactly three       *)
(* lines, in order a separator rule, the column-header line (Benchmark |   *)
(* Performance | Time) and a second separator rule, whatever the values of *)
(* the program's variables, and changes nothing else; every call emits the *)
(* same lines.                                                             *)
(***************************************************************************)
C3_HeaderStep ==
    (Len(trace') = Len(trace) + 1 /\ Last(trace') = Event("print_header", 0)) =>
        /\ Len(out') = Len(out) + 3
        /\ SubSeq(out', 1, Len(out)) = out
        /\ IsRule(out'[Len(out) + 1])
        /\ IsHeader(out'[Len(out) + 2])
        /\ IsRule(out'[Len(out) + 3])
        /\ UNCHANGED <<mainpc, locals, calls, iters>>

C3_SameLinesEveryCall ==
    \A j, k \in 1..Len(trace) :
        (calls = <<>> /\ j < k) =>
            \A n \in 1..3 : out[3 * (j - 1) + n] = out[3 * (k - 1) + n]

\* C3 as amended: every call of print_header() appends rule, column header,
\* rule, changes nothing else, and emits the same lines as every other call
C3_HeaderIsRuleColumnsRule == [][C3_HeaderStep]_vars /\ []C3_SameLinesEveryCall

\* print_header() has been called twice in a row
C3_Witness ==
    /\ Len(trace) = 2
    /\ trace[1] = Event("print_header", 0) /\ trace[2] = Event("print_header", 0)
    /\ Len(out) = 6

(***************************************************************************)
(* C4  The output of a complete run is, in order: the title line, a rule,  *)
(* the header row, a second rule, five data rows, a trailing rule and a    *)
(* blank line.  Nothing precedes the title and nothing follows the blank   *)
(* line.                                                                   *)
(***************************************************************************)
C4_LineOrder ==
    /\ Finished =>
          /\ Len(out) = 11
          /\ IsTitle(out[1])
          /\ IsRule(out[2])
          /\ IsHeader(out[3])
          /\ IsRule(out[4])
          /\ \A k \in 5..9 : IsRow(out[k])
          /\ IsRule(out[10])
          /\ out[11] = <<>>
    /\ out # <<>> => IsTitle(out[1])
    /\ (out # <<>> /\ Last(out) = <<>>) => Finished /\ Len(out) = 11

C4_Witness == Finished /\ Len(out) = 11 /\ Last(out) = <<>>

(***************************************************************************)
(* C5  Any two runs, whatever the clock returned in each, end with reports *)
(* of the same structure: the same number of lines, the same row count,    *)
(* the same labels at the same positions and the same columns.  The        *)
(* structure of a report is a function of the report, so all runs agree    *)
(* with each other exactly when each ended run (finished or aborted) has   *)
(* the structure of the report section 6 of the specification describes.   *)
(***************************************************************************)
Shape(t) ==
    IF t = <<>> THEN [kind |-> "blank", label |-> <<>>]
    ELSE IF IsTitle(t) THEN [kind |-> "title", label |-> <<>>]
    ELSE IF IsRule(t) THEN [kind |-> "rule", label |-> <<>>]
    ELSE IF IsHeader(t) THEN [kind |-> "header", label |-> <<>>]
    ELSE IF IsRow(t) THEN [kind |-> "row", label |-> RowLabel(t)]
    ELSE [kind |-> "other", label |-> <<>>]

Structure(o) == [k \in 1..Len(o) |-> Shape(o[k])]

ReportStructure ==
    LET line(kind) == [kind |-> kind, label |-> <<>>]
    IN  <<line("title"), line("rule"), line("header"), line("rule")>>
        \o [k \in 1..5 |-> [kind |-> "row", label |-> FixedOrder[k]]]
        \o <<line("rule"), line("blank")>>

\* C5: every ended run has the one report structure
C5_SameStructureEveryRun ==
    (Finished \/ Aborted) => Structure(out) = ReportStructure

(***************************************************************************)
(* C6  When print_result has returned to a benchmark whose clock reads     *)
(* differ, the arguments it was passed satisfy sec = end - start and       *)
(* ops = N / sec with N the benchmark's fixed count, the name is the       *)
(* benchmark's own label, and the row just written carries that label.     *)
(***************************************************************************)
C6_ThroughputIsCountOverElapsed ==
    (mainpc = "bench" /\ pc = "ret") =>
        LET c == Last(calls) IN
        /\ locals.end # locals.start
        /\ c.sec.k = "fin" /\ c.sec.den = 1
        /\ c.sec.num = locals.end.num - locals.start.num
        /\ IsQuotient(c.ops, FixedCount[cur], c.sec.num)
        /\ c.name = FixedOrder[cur]
        /\ IsRow(Last(out)) /\ RowLabel(Last(out)) = FixedOrder[cur]

\* Struct Access has printed its row after the clock went backwards during
\* it, and after it went forwards during Integer Add
C6_Witness ==
    /\ mainpc = "bench" /\ pc = "ret" /\ cur = 5
    /\ locals.end.num < locals.start.num
    /\ calls[1].sec.num > 0

(***************************************************************************)
(* C7  print_result validates nothing and never fails: every call, for any *)
(* name, any elapsed value (zero and negative included) and any throughput *)
(* (negative, infinite and not-a-number included), appends exactly one     *)
(* row to the output and returns to its caller.                            *)
(***************************************************************************)
C7_ResultStep ==
    (Len(calls') = Len(calls) + 1) =>
        /\ Len(out') = Len(out) + 1
        /\ SubSeq(out', 1, Len(out)) = out
        /\ IsRow(Last(out'))
        /\ mainpc' = mainpc

C7_CallEnabled ==
    (mainpc = "harness" /\ Len(trace) < MaxCalls) => ENABLED HarnessResult

\* C7: every call of print_result appends exactly one row and returns, and
\* the call is possible for every input
C7_PrintResultAlwaysPrintsOneRow == [][C7_ResultStep]_vars /\ []C7_CallEnabled

\* a row has been printed for a throughput that is not finite and an elapsed
\* time that is not positive
C7_Witness ==
    /\ calls # <<>>
    /\ Last(calls).ops.k # "fin"
    /\ Last(calls).sec.k = "fin" /\ Last(calls).sec.num <= 0
    /\ IsRow(Last(out))

(***************************************************************************)
(* C8  Benchmarks never overlap: when a benchmark makes its start clock    *)
(* read, the benchmark before it has made its start read, run all of its   *)
(* iterations, made its end read and printed its row, in this order; and   *)
(* the iterations of a benchmark run only between its two clock reads.     *)
(***************************************************************************)
C8_Sequential ==
    LET nrows == Len(Rows(out)) IN
    \A b \in 1..(Len(Order) - 1) :
        Has("start", b + 1) =>
            /\ Has("start", b) /\ Has("end", b) /\ Has("print", b)
            /\ Pos("start", b) < Pos("end", b)
            /\ Pos("end", b) < Pos("print", b)
            /\ Pos("print", b) < Pos("start", b + 1)
            /\ iters[b] = FixedCount[b]
            /\ nrows >= b

C8_IterationsBetweenReads ==
    \A b \in 1..Len(Order) :
        iters'[b] # iters[b] => trace # <<>> /\ Last(trace) = Event("start", b)

\* C8: each benchmark's start read, iterations, end read and print come
\* before the next benchmark's start read
C8_NoOverlap == []C8_Sequential /\ [][C8_IterationsBetweenReads]_vars

\* the last benchmark has made its start clock read
C8_Witness == Has("start", 5) /\ pc = "loop" /\ iters[5] > 0

(***************************************************************************)
(* C9  Every loop runs its operation exactly N times: the counter starts   *)
(* at 0, counts the operations performed, rises by 1 per iteration and is  *)
(* N when the loop is left, whatever the clock returned; all N operations  *)
(* fall between the two clock reads; and the run ends, either finished or  *)
(* stopped at a benchmark whose elapsed time is 0.                         *)
(***************************************************************************)
C9_Counts ==
    /\ (mainpc = "bench" /\ pc = "loop") =>
          /\ locals.i = iters[cur]
          /\ 0 <= locals.i /\ locals.i <= FixedCount[cur]
          /\ ~Has("end", cur)
    /\ (mainpc \in {"bench", "raised"} /\ pc \in {"compute", "print", "ret"}) =>
          /\ locals.i = FixedCount[cur]
          /\ iters[cur] = FixedCount[cur]
          /\ Order[cur] = "bench_string" => locals.s.len = FixedCount[cur]
          /\ Order[cur] = "bench_array" => locals.arr.len = FixedCount[cur]
    /\ \A b \in 1..Len(Order) : Has("end", b) => iters[b] = FixedCount[b]

C9_CounterStep ==
    (pc = "loop" /\ pc' = "loop") =>
        /\ locals'.i - locals.i = iters'[cur] - iters[cur]
        /\ (locals.i < HeadIters \/ locals.i >= FixedCount[cur] - TailIters) =>
              locals'.i = locals.i + 1

\* C9: every loop performs exactly N operations whatever the clock returns,
\* and the run ends
C9_LoopsRunToCount ==
    /\ []C9_Counts
    /\ [][C9_CounterStep]_vars
    /\ <>(Finished \/ (Aborted /\ ZeroElapsed))

\* String Concat has left its loop after a start read of MaxTick
C9_Witness ==
    /\ mainpc = "bench" /\ pc = "compute" /\ Order[cur] = "bench_string"
    /\ locals.i = 50000 /\ locals.start.num = MaxTick

(***************************************************************************)
(* C10  Struct Access creates one object with val = 0 before its loop; the *)
(* value read in an iteration is the value just written, the loop index;   *)
(* at the loop head the field holds i - 1 when i > 0, and N - 1 when the   *)
(* loop has ended; no other benchmark has the object among its locals.     *)
(***************************************************************************)
C10_FieldHoldsLastWrite ==
    /\ "o" \in DOMAIN locals => Order[cur] = "bench_struct"
    /\ (mainpc = "bench" /\ Order[cur] = "bench_struct" /\ pc # "start") =>
          /\ "o" \in DOMAIN locals
          /\ locals.i = 0 => locals.o.val = 0 /\ "x" \notin DOMAIN locals
          /\ locals.i > 0 => locals.o.val = locals.i - 1 /\ locals.x = locals.i - 1
          /\ pc # "loop" => locals.o.val = 50000000 - 1

\* the loop of Struct Access is at its head after its last iteration
C10_Witness ==
    /\ mainpc = "bench" /\ Order[cur] = "bench_struct" /\ pc = "loop"
    /\ locals.i = 50000000 /\ locals.o.val = 49999999
====
